---- MODULE Spec2Model ----
(***************************************************************************)
(* State-machine model of the sort micro-benchmark harness                 *)
(* (src/cpp/src/main.cpp).  Each harness invocation is a process p; the    *)
(* processes share the file system: the dataset file, the parent directory *)
(* of the results log and the results log itself.                          *)
(*                                                                         *)
(* Text is modelled as a sequence of one-character strings, so that the    *)
(* code's character-level conversions (std::stoi, std::to_string,          *)
(* infer_distribution) are computed the way the code computes them.        *)
(* A line of the log or the console is the sequence of its comma-separated *)
(* fields.  The dataset file is a sequence of bytes (0..255).              *)
(***************************************************************************)
EXTENDS Integers, Sequences, FiniteSets, TLC

(* ------------------------------ bounds --------------------------------- *)
\* number of harness invocations that target the same log path
NProcs == 2
\* largest --warmup value given on a command line
MaxWarmup == 1
\* largest --reps value given on a command line
MaxReps == 2
\* largest element count declared by a dataset header
MaxN == 2

Procs == 1..NProcs

(* --------------------------- program constants ------------------------- *)
\* Args::warmup default
DefaultWarmup == 5
\* Args::reps default
DefaultReps == 30
\* INT_MAX of the int that std::stoi returns
IntMax == 2147483647
\* sizeof(uint32_t), sizeof(int32_t)
WordBytes == 4

(* ------------------------------- text ---------------------------------- *)
FlagDataset == <<"-","-","d","a","t","a","s","e","t">>
FlagAlgo == <<"-","-","a","l","g","o">>
FlagWarmup == <<"-","-","w","a","r","m","u","p">>
FlagReps == <<"-","-","r","e","p","s">>
FlagOut == <<"-","-","o","u","t">>
FlagNoValidate == <<"-","-","n","o","-","v","a","l","i","d","a","t","e">>
AlgoBuiltin == <<"b","u","i","l","t","i","n">>
DefaultOut == <<"r","e","s","u","l","t","s","/","r","a","w",".","c","s","v">>
TextUnknown == <<"u","n","k","n","o","w","n">>
TextSort == <<"s","o","r","t">>
TextCpp == <<"c","p","p">>
TextCpp20 == <<"c","+","+","2","0">>
TextTrue == <<"t","r","u","e">>
TextFalse == <<"f","a","l","s","e">>

\* positions of rep_idx and ok in a row (the first field is 1)
RepIdxField == 10
OkField == 12

\* struct Args with its default member initialisers
DefaultArgs ==
  [dataset |-> << >>, algo |-> AlgoBuiltin, warmup |-> DefaultWarmup,
   reps |-> DefaultReps, out |-> DefaultOut, validate |-> TRUE]

\* the header line append_row writes into a new file, split at its commas
HeaderLine ==
  << <<"t","i","m","e","s","t","a","m","p","_","i","s","o">>, <<"t","a","s","k">>, <<"l","a","n","g","u","a","g","e">>, <<"l","a","n","g","u","a","g","e","_","v","e","r","s","i","o","n">>, <<"a","l","g","o">>,
     <<"d","a","t","a","s","e","t","_","f","i","l","e">>, <<"d","i","s","t","r","i","b","u","t","i","o","n">>, <<"n">>, <<"w","a","r","m","u","p","_","r","u","n","s">>, <<"r","e","p","_","i","d","x">>,
     <<"t","i","m","e","_","m","s">>, <<"o","k">> >>

DigitChars == <<"0","1","2","3","4","5","6","7","8","9">>
IsDigit(c) == \E d \in 1..10 : DigitChars[d] = c
DigitVal(c) == (CHOOSE d \in 1..10 : DigitChars[d] = c) - 1
IsSpace(c) == c \in {" ", "\t", "\n", "\r"}

\* std::to_string(int)
RECURSIVE NatToString(_)
NatToString(k) ==
  IF k < 10 THEN << DigitChars[k + 1] >>
  ELSE NatToString(k \div 10) \o << DigitChars[(k % 10) + 1] >>
to_string(k) == IF k < 0 THEN <<"-">> \o NatToString(-k) ELSE NatToString(k)

\* std::stoi(s): skips leading white space, reads an optional sign and the
\* longest run of digits, ignores what follows; std::invalid_argument when
\* there is no digit, std::out_of_range when the value does not fit an int.
RECURSIVE SkipSpace(_,_)
SkipSpace(s, k) ==
  IF k <= Len(s) /\ IsSpace(s[k]) THEN SkipSpace(s, k + 1) ELSE k
\* the digits from position k on, accumulated as a non-positive number so
\* that INT_MIN is representable; ovf when the value leaves the range of int
RECURSIVE AccDigits(_,_,_,_)
AccDigits(s, k, acc, neg) ==
  IF k > Len(s) \/ ~IsDigit(s[k]) THEN [ovf |-> FALSE, acc |-> acc]
  ELSE LET d == DigitVal(s[k])
           lastMax == IF neg THEN (IntMax % 10) + 1 ELSE IntMax % 10
       IN  IF acc < -(IntMax \div 10) \/ (acc = -(IntMax \div 10) /\ d > lastMax)
             THEN [ovf |-> TRUE, acc |-> 0]
           ELSE AccDigits(s, k + 1, acc * 10 - d, neg)
stoi(s) ==
  LET k0 == SkipSpace(s, 1)
      signed == k0 <= Len(s) /\ s[k0] \in {"-", "+"}
      neg == signed /\ s[k0] = "-"
      k1 == IF signed THEN k0 + 1 ELSE k0
      r == AccDigits(s, k1, 0, neg)
  IN  IF k1 > Len(s) \/ ~IsDigit(s[k1])
        THEN [err |-> "invalid_argument", value |-> 0]
      ELSE IF r.ovf
        THEN [err |-> "out_of_range", value |-> 0]
      ELSE [err |-> "none", value |-> IF neg THEN r.acc ELSE -r.acc]

(* ------------------------------ parse_args ----------------------------- *)
\* usage_and_exit() and the two std::exit(2) calls of parse_args
ExitUsage(a) == [kind |-> "exit2", a |-> a]
\* an exception of std::stoi leaves parse_args
ThrowStoi(a) == [kind |-> "throw", a |-> a]

\* the for loop of parse_args; i is the C index into argv, argv[i] is the
\* (i+1)-th element of the sequence
RECURSIVE ParseLoop(_,_,_)
ParseLoop(argv, i, a) ==
  IF i >= Len(argv) THEN [kind |-> "parsed", a |-> a]
  ELSE
    LET arg == argv[i + 1]
        noValue == i + 1 >= Len(argv)
        val == argv[i + 2]
    IN  IF arg = FlagDataset THEN
          IF noValue THEN ExitUsage(a)
          ELSE ParseLoop(argv, i + 2, [a EXCEPT !.dataset = val])
        ELSE IF arg = FlagAlgo THEN
          IF noValue THEN ExitUsage(a)
          ELSE ParseLoop(argv, i + 2, [a EXCEPT !.algo = val])
        ELSE IF arg = FlagWarmup THEN
          IF noValue THEN ExitUsage(a)
          ELSE IF stoi(val).err # "none" THEN ThrowStoi(a)
          ELSE ParseLoop(argv, i + 2, [a EXCEPT !.warmup = stoi(val).value])
        ELSE IF arg = FlagReps THEN
          IF noValue THEN ExitUsage(a)
          ELSE IF stoi(val).err # "none" THEN ThrowStoi(a)
          ELSE ParseLoop(argv, i + 2, [a EXCEPT !.reps = stoi(val).value])
        ELSE IF arg = FlagOut THEN
          IF noValue THEN ExitUsage(a)
          ELSE ParseLoop(argv, i + 2, [a EXCEPT !.out = val])
        ELSE IF arg = FlagNoValidate THEN
          ParseLoop(argv, i + 1, [a EXCEPT !.validate = FALSE])
        ELSE ExitUsage(a)

\* the checks of parse_args after its loop
CheckArgs(a) ==
  IF a.dataset = << >> THEN ExitUsage(a)
  ELSE IF a.warmup < 0 \/ a.reps <= 0 THEN ExitUsage(a)
  ELSE IF a.algo # AlgoBuiltin THEN ExitUsage(a)
  ELSE [kind |-> "parsed", a |-> a]

parse_args(argv) ==
  LET r == ParseLoop(argv, 1, DefaultArgs)
  IN  IF r.kind = "parsed" THEN CheckArgs(r.a) ELSE r

(* ------------------------- infer_distribution -------------------------- *)
\* fs::path(p).filename(): what follows the last '/'
RECURSIVE filename(_)
filename(p) ==
  IF \E k \in 1..Len(p) : p[k] = "/"
    THEN filename(SubSeq(p, (CHOOSE k \in 1..Len(p) : p[k] = "/") + 1, Len(p)))
    ELSE p

\* base.find("_n"): the first position of "_n", 0 standing for npos
FindUnderscoreN(base) ==
  IF \E k \in 1..(Len(base) - 1) : base[k] = "_" /\ base[k + 1] = "n"
    THEN CHOOSE k \in 1..(Len(base) - 1) :
           /\ base[k] = "_" /\ base[k + 1] = "n"
           /\ \A j \in 1..(k - 1) : ~(base[j] = "_" /\ base[j + 1] = "n")
    ELSE 0

infer_distribution(dataset_path) ==
  LET base == filename(dataset_path)
      pos == FindUnderscoreN(base)
  IN  IF pos = 0 THEN TextUnknown ELSE SubSeq(base, 1, pos - 1)

(* ------------------------ is_sorted_non_decreasing --------------------- *)
\* is_sorted_non_decreasing with a loop that stops one pair early
is_sorted_skip_last(a) ==
  ~ \E k \in 1..(Len(a) - 2) : a[k] > a[k + 1]

\* the loop over i with i + 1 < a.size(), returning false at the first
\* adjacent pair with a[i] > a[i + 1]
is_sorted_non_decreasing(a) ==
  ~ \E k \in 1..(Len(a) - 1) : a[k] > a[k + 1]

(* --------------------------- the dataset file -------------------------- *)
\* a little-endian 32-bit word as its four bytes, low byte first
ByteAt(v, k) ==
  LET u0 == IF v < 0 THEN v + IntMax + 1 ELSE v     \* the low 31 bits
      b == CASE k = 0 -> u0 % 256
             [] k = 1 -> (u0 \div 256) % 256
             [] k = 2 -> (u0 \div 65536) % 256
             [] k = 3 -> (u0 \div 16777216) % 128
  IN  IF k = 3 /\ v < 0 THEN b + 128 ELSE b
EncodeWord(v) == << ByteAt(v, 0), ByteAt(v, 1), ByteAt(v, 2), ByteAt(v, 3) >>
RECURSIVE EncodeWords(_)
EncodeWords(w) ==
  IF w = << >> THEN << >> ELSE EncodeWord(Head(w)) \o EncodeWords(Tail(w))

\* the dataset of n elements: 256, -1, 256, ... (unsorted from n = 2 on, and
\* its elements differ in every byte)
Pattern(n) == [k \in 1..n |-> IF k % 2 = 1 THEN 256 ELSE -1]
\* header declaring Len(w) followed by the payload w
FileOf(w) == EncodeWord(Len(w)) \o EncodeWords(w)
WellFormedBytes == { FileOf(Pattern(n)) : n \in 0..MaxN }
Prefixes(s) == { SubSeq(s, 1, k) : k \in 0..Len(s) }
\* the files that can be at the dataset path: absent or unreadable, well
\* formed, cut short anywhere, followed by one byte or by one more element
DatasetFiles ==
  { [openable |-> FALSE, bytes |-> << >>] } \cup
  { [openable |-> TRUE, bytes |-> b] :
      b \in UNION { Prefixes(f) : f \in WellFormedBytes }
            \cup { f \o << 0 >> : f \in WellFormedBytes }
            \cup { f \o EncodeWord(256) : f \in WellFormedBytes } }

(* --------------------------- read_bin_int32_le ------------------------- *)
\* f.read of the uint32_t n on a little-endian host (the counts of the
\* model's files are below 2^31)
DecodeCount(b) == b[1] + 256 * b[2] + 65536 * b[3] + 16777216 * b[4]
\* four bytes read into an int32_t on a little-endian host
DecodeInt32(b) ==
  b[1] + 256 * b[2] + 65536 * b[3]
    + 16777216 * (IF b[4] >= 128 THEN b[4] - 256 ELSE b[4])

Loaded(vals) == [err |-> "none", values |-> vals]
LoadError(e) == [err |-> e, values |-> << >>]

\* read_bin_int32_le without its check for trailing bytes
read_bin_lenient(file) ==
  IF ~file.openable THEN { LoadError("Failed to open") }
  ELSE IF Len(file.bytes) < WordBytes THEN { LoadError("Failed to read header") }
  ELSE
    LET n == DecodeCount(SubSeq(file.bytes, 1, WordBytes))
        have == Len(file.bytes) - WordBytes
    IN  IF have < n * WordBytes THEN { LoadError("Failed to read payload") }
        ELSE { Loaded([k \in 1..n |->
                 DecodeInt32(SubSeq(file.bytes, WordBytes * k + 1, WordBytes * k + WordBytes))]) }

\* the outcomes of read_bin_int32_le(path) on the file at the path: the
\* returned vector, or the exception that leaves the function.  n * sizeof
\* (int32_t) is computed in size_t and does not wrap.  Exhaustion of memory
\* by std::vector<int32_t> values(n) is outside the model.
read_bin_int32_le(file) ==
  IF ~file.openable THEN { LoadError("Failed to open") }
  ELSE IF Len(file.bytes) < WordBytes THEN { LoadError("Failed to read header") }
  ELSE
    LET n == DecodeCount(SubSeq(file.bytes, 1, WordBytes))
        have == Len(file.bytes) - WordBytes
    IN  IF have < n * WordBytes THEN { LoadError("Failed to read payload") }
        ELSE IF have > n * WordBytes THEN { LoadError("File has extra trailing bytes") }
        ELSE { Loaded([k \in 1..n |->
                 DecodeInt32(SubSeq(file.bytes, WordBytes * k + 1, WordBytes * k + WordBytes))]) }

\* the error classes of the loader's failures
IOErrors == { "Failed to open", "Failed to read header", "Failed to read payload" }
FormatErrors == { "File has extra trailing bytes" }

(* ------------------------------ std::sort ------------------------------ *)
RECURSIVE InsertSorted(_,_)
InsertSorted(x, s) ==
  IF s = << >> THEN << x >>
  ELSE IF x <= Head(s) THEN << x >> \o s
  ELSE << Head(s) >> \o InsertSorted(x, Tail(s))
RECURSIVE std_sort(_)
\* std::sort(tmp.begin(), tmp.end()): the elements in non-decreasing order
std_sort(s) == IF s = << >> THEN << >> ELSE InsertSorted(Head(s), std_sort(Tail(s)))

\* the rearrangements of s
Rearrangements(s) ==
  { [k \in 1..Len(s) |-> s[f[k]]] : f \in { g \in [1..Len(s) -> 1..Len(s)] :
                                          \A a, b \in 1..Len(s) : a # b => g[a] # g[b] } }

\* what the sort capability can leave in the scratch copy: std::sort orders
\* it; a sort that breaks its contract (fault) leaves any rearrangement
SortOutcomes(s, fault) == IF fault THEN Rearrangements(s) ELSE { std_sort(s) }

(* ---------------------------- command lines ---------------------------- *)
ProgName == <<"b","e","n","c","h","_","c","p","p">>
DatasetPath == <<"d","a","t","a","s","e","t","s","/","i","n","t","s","/","r","a","n","d","o","m","_","n","1","0","0","0","0","0","_","s","e","e","d","1",".","b","i","n">>
\* a command line of the usual shape
CommandLine(al, wu, rp, nv, tl) ==
  << ProgName, FlagDataset, DatasetPath >> \o al \o << FlagWarmup, wu, FlagReps, rp >>
    \o nv \o tl
\* command lines that parse_args accepts
GoodArgv ==
  { CommandLine(<< >>, to_string(w), to_string(r), nv, << >>) :
      w \in 0..MaxWarmup, r \in 1..MaxReps, nv \in { << >>, << FlagNoValidate >> } }
  \cup { CommandLine(<< FlagAlgo, AlgoBuiltin >>, <<"0">>, <<" ","+","1","x">>, << >>, << FlagOut, DefaultOut >>) }
\* command lines with one defect each
BadArgv ==
  { << ProgName >>,
    << ProgName, FlagWarmup, <<"0">>, FlagReps, <<"1">> >>,
    << ProgName, FlagDataset >>,
    << ProgName, FlagDataset, << >> >>,
    CommandLine(<< >>, <<"0">>, <<"1">>, << >>, << <<"-","-","b","o","g","u","s">> >>),
    CommandLine(<< >>, <<"0">>, <<"1">>, << >>, << FlagOut >>),
    CommandLine(<< >>, <<"0">>, <<"0">>, << >>, << >>),
    CommandLine(<< >>, <<"0">>, <<"-","1">>, << >>, << >>),
    CommandLine(<< >>, <<"-","1">>, <<"1">>, << >>, << >>),
    CommandLine(<< >>, <<"a","b","c">>, <<"1">>, << >>, << >>),
    CommandLine(<< >>, <<"0">>, <<"a","b","c">>, << >>, << >>),
    CommandLine(<< >>, <<"0">>, <<"9","9","9","9","9","9","9","9","9","9","9">>, << >>, << >>),
    CommandLine(<< >>, <<"-","9","9","9","9","9","9","9","9","9","9","9">>, <<"1">>, << >>, << >>),
    CommandLine(<< FlagAlgo, <<"o","t","h","e","r">> >>, <<"0">>, <<"3">>, << >>, << >>),
    CommandLine(<< FlagAlgo >>, <<"0">>, <<"1">>, << >>, << >>) }

(* -------------------------------- state -------------------------------- *)
VARIABLES
  sortFault,   \* the sort capability breaks its contract (hypothetical)
  exclusive,   \* one invocation owns the log path at a time
  launches,    \* number of invocations that are started
  cmdline,     \* the command line of the invocations that are given a valid one
  dsFile,      \* the file at the dataset path
  dirExists,   \* the parent directory of the log path exists
  log,         \* the results log: [exists, lines]
  calls,       \* the rows of the append_row calls that returned, in order
  pc,          \* position of each invocation in main
  args,        \* Args args
  values,      \* the loaded dataset
  dsOpened,    \* the invocation has opened the dataset path
  scratchIn,   \* auto tmp = values: the scratch copy before the last sort
  tmp,         \* the scratch copy after the last sort
  iters,       \* number of sorts executed (warmup and measured)
  i,           \* warmup loop counter
  rep,         \* measured loop counter
  row,         \* the row of the current repetition
  new_file,    \* append_row's new_file
  console,     \* the lines written to std::cout
  appended,    \* the rows this invocation has written to the log
  exitCode,    \* the exit code, -1 while running
  err          \* what ended the run early, "none" otherwise

vars == << sortFault, exclusive, launches, cmdline, dsFile, dirExists, log, calls, pc, args, values,
           dsOpened, scratchIn, tmp, iters, i, rep, row, new_file, console,
           appended, exitCode, err >>

env == << sortFault, exclusive, launches, cmdline, dsFile >>

InitProcs ==
  /\ pc = [p \in Procs |-> "start"]
  /\ args = [p \in Procs |-> DefaultArgs]
  /\ values = [p \in Procs |-> << >>]
  /\ dsOpened = [p \in Procs |-> FALSE]
  /\ scratchIn = [p \in Procs |-> << >>]
  /\ tmp = [p \in Procs |-> << >>]
  /\ iters = [p \in Procs |-> 0]
  /\ i = [p \in Procs |-> 0]
  /\ rep = [p \in Procs |-> 0]
  /\ row = [p \in Procs |-> << >>]
  /\ new_file = [p \in Procs |-> FALSE]
  /\ console = [p \in Procs |-> << >>]
  /\ appended = [p \in Procs |-> << >>]
  /\ exitCode = [p \in Procs |-> -1]
  /\ err = [p \in Procs |-> "none"]

InitFiles ==
  /\ cmdline \in GoodArgv
  /\ dsFile \in DatasetFiles
  /\ dirExists = FALSE
  /\ log = [exists |-> FALSE, lines |-> << >>]
  /\ calls = << >>

\* the harness as built (std::sort), one invocation at a time
Init ==
  /\ sortFault = FALSE
  /\ exclusive = TRUE
  /\ launches = NProcs
  /\ InitFiles
  /\ InitProcs

\* the sort capability may break its contract; a single invocation
InitFaulty ==
  /\ sortFault \in BOOLEAN
  /\ exclusive = TRUE
  /\ launches = 1
  /\ InitFiles
  /\ InitProcs

\* invocations overlap in time
InitConc ==
  /\ sortFault = FALSE
  /\ exclusive = FALSE
  /\ launches = NProcs
  /\ InitFiles
  /\ InitProcs

(* ------------------------------- actions ------------------------------- *)
\* the process ends: std::exit(2), return 1 of the catch block, or return 0
Exits(p, code, e) ==
  /\ pc' = [pc EXCEPT ![p] = "done"]
  /\ exitCode' = [exitCode EXCEPT ![p] = code]
  /\ err' = [err EXCEPT ![p] = e]

Idle(q) == pc[q] \in { "start", "done" }

\* main: Args args = parse_args(argc, argv).  The invocations are numbered in
\* the order in which they are launched.
Parse(p) ==
  /\ pc[p] = "start"
  /\ p <= launches
  /\ \A q \in Procs : q < p => pc[q] # "start"
  /\ exclusive => \A q \in Procs \ {p} : Idle(q)
  /\ \E argv \in { cmdline } \cup BadArgv :
       LET r == parse_args(argv)
       IN  CASE r.kind = "exit2" -> Exits(p, 2, "usage") /\ UNCHANGED args
             [] r.kind = "throw" -> Exits(p, 1, "stoi") /\ UNCHANGED args
             [] OTHER -> /\ args' = [args EXCEPT ![p] = r.a]
                         /\ pc' = [pc EXCEPT ![p] = "load"]
                         /\ UNCHANGED << exitCode, err >>
  /\ UNCHANGED << env, dirExists, log, calls, values, dsOpened, scratchIn, tmp,
                  iters, i, rep, row, new_file, console, appended >>

\* main: auto values = read_bin_int32_le(args.dataset)
Load(p) ==
  /\ pc[p] = "load"
  /\ dsOpened' = [dsOpened EXCEPT ![p] = TRUE]
  /\ \E r \in read_bin_int32_le(dsFile) :
       IF r.err # "none"
         THEN Exits(p, 1, r.err) /\ UNCHANGED values
         ELSE /\ values' = [values EXCEPT ![p] = r.values]
              /\ pc' = [pc EXCEPT ![p] = IF 0 < args[p].warmup THEN "warmup" ELSE "measure"]
              /\ UNCHANGED << exitCode, err >>
  /\ UNCHANGED << env, dirExists, log, calls, args, scratchIn, tmp, iters, i,
                  rep, row, new_file, console, appended >>

\* a scratch copy taken from the previous iteration's sorted copy
FreshCopyReused(p) == IF iters[p] > 0 THEN tmp[p] ELSE values[p]

\* auto tmp = values: the scratch copy of an iteration
FreshCopy(p) == values[p]

\* one iteration of the warmup loop
Warmup(p) ==
  /\ pc[p] = "warmup"
  /\ i[p] < args[p].warmup
  /\ scratchIn' = [scratchIn EXCEPT ![p] = FreshCopy(p)]
  /\ \E sorted \in SortOutcomes(FreshCopy(p), sortFault) :
       tmp' = [tmp EXCEPT ![p] = sorted]
  /\ iters' = [iters EXCEPT ![p] = @ + 1]
  /\ i' = [i EXCEPT ![p] = @ + 1]
  /\ pc' = [pc EXCEPT ![p] = IF i[p] + 1 < args[p].warmup THEN "warmup" ELSE "measure"]
  /\ UNCHANGED << env, dirExists, log, calls, args, values, dsOpened, rep, row,
                  new_file, console, appended, exitCode, err >>

\* bool ok = args.validate ? is_sorted_non_decreasing(tmp) : true
ComputeOk(validate, sorted) ==
  IF validate THEN is_sorted_non_decreasing(sorted) ELSE TRUE

\* now_iso_local() and the formatted time_ms: readings of the clocks, carried
\* as fixed texts
now_iso_local == <<"2","0","2","6","-","0","1","-","0","1","T","0","0",":","0","0",":","0","0">>
FormatTimeMs == <<"0",".","0","0","0">>

\* a row that numbers the repetitions from 1
MakeRowFromOne(a, n, r, ok) ==
  << now_iso_local, TextSort, TextCpp, TextCpp20, a.algo, a.dataset,
     infer_distribution(a.dataset), to_string(n), to_string(a.warmup),
     to_string(r + 1), FormatTimeMs, IF ok THEN TextTrue ELSE TextFalse >>

\* std::vector<std::string> row of repetition r
MakeRow(a, n, r, ok) ==
  << now_iso_local, TextSort, TextCpp, TextCpp20, a.algo, a.dataset,
     infer_distribution(a.dataset), to_string(n), to_string(a.warmup),
     to_string(r), FormatTimeMs, IF ok THEN TextTrue ELSE TextFalse >>

\* the first row of the run passed to append_row again
RowToAppendFirst(p) == console[p][1]

\* the row main passes to append_row
RowToAppend(p) == row[p]

\* one repetition of the measured loop up to the call of append_row: copy,
\* sort, validate, build the row, print it
Measure(p) ==
  /\ pc[p] = "measure"
  /\ rep[p] < args[p].reps
  /\ scratchIn' = [scratchIn EXCEPT ![p] = FreshCopy(p)]
  /\ \E sorted \in SortOutcomes(FreshCopy(p), sortFault) :
       /\ tmp' = [tmp EXCEPT ![p] = sorted]
       /\ row' = [row EXCEPT ![p] =
            MakeRow(args[p], Len(values[p]), rep[p], ComputeOk(args[p].validate, sorted))]
  /\ iters' = [iters EXCEPT ![p] = @ + 1]
  /\ console' = [console EXCEPT ![p] = Append(@, row'[p])]
  /\ pc' = [pc EXCEPT ![p] = "append_check"]
  /\ UNCHANGED << env, dirExists, log, calls, args, values, dsOpened, i, rep,
                  new_file, appended, exitCode, err >>

\* append_row: ensure_parent_dir(csv_path); bool new_file = !file_exists(csv_path)
AppendCheck(p) ==
  /\ pc[p] = "append_check"
  /\ \/ \* fs::create_directories succeeds
        /\ dirExists' = TRUE
        /\ new_file' = [new_file EXCEPT ![p] = ~log.exists]
        /\ pc' = [pc EXCEPT ![p] = "append_open"]
        /\ UNCHANGED << exitCode, err >>
     \/ \* fs::create_directories throws
        /\ ~dirExists
        /\ Exits(p, 1, "create_directories")
        /\ UNCHANGED << dirExists, new_file >>
  /\ UNCHANGED << env, log, calls, args, values, dsOpened, scratchIn, tmp, iters,
                  i, rep, row, console, appended >>

\* a failed open that is swallowed: the process returns 0
OpenFailsSwallowed(p) == Exits(p, 0, "Failed to open output CSV")

\* throw std::runtime_error("Failed to open output CSV: ..."), caught by
\* main's catch block, which returns 1
OpenFails(p) == Exits(p, 1, "Failed to open output CSV")

\* append_row: std::ofstream f(csv_path, std::ios::app); if (!f) throw
AppendOpen(p) ==
  /\ pc[p] = "append_open"
  /\ \/ \* the open succeeds and creates the file when it is absent
        /\ log' = [log EXCEPT !.exists = TRUE]
        /\ pc' = [pc EXCEPT ![p] = "append_write"]
        /\ UNCHANGED << exitCode, err >>
     \/ \* the open fails
        /\ OpenFails(p)
        /\ UNCHANGED log
  /\ UNCHANGED << env, dirExists, calls, args, values, dsOpened, scratchIn, tmp,
                  iters, i, rep, row, new_file, console, appended >>

\* an append_row that writes the header on every call
LinesWrittenAlwaysHeader(isNew, r) == << HeaderLine, r >>

\* what one append_row call writes: the header when new_file, then the row
LinesWritten(isNew, r) == (IF isNew THEN << HeaderLine >> ELSE << >>) \o << r >>

\* a measured loop that stops at the first failed validation
RepContinuesWhileOk(p) == rep[p] + 1 < args[p].reps /\ row[p][OkField] = TextTrue

\* rep++ and the test rep < args.reps of the measured loop
RepContinues(p) == rep[p] + 1 < args[p].reps

\* append_row: the header and the row go to the file when f is closed; then
\* the loop's rep++ and test, and return 0 after the last repetition
AppendWrite(p) ==
  /\ pc[p] = "append_write"
  /\ log' = [log EXCEPT !.lines = @ \o LinesWritten(new_file[p], RowToAppend(p))]
  /\ calls' = Append(calls, RowToAppend(p))
  /\ appended' = [appended EXCEPT ![p] = Append(@, RowToAppend(p))]
  /\ rep' = [rep EXCEPT ![p] = @ + 1]
  /\ IF RepContinues(p)
       THEN /\ pc' = [pc EXCEPT ![p] = "measure"]
            /\ UNCHANGED << exitCode, err >>
       ELSE Exits(p, 0, "none")
  /\ UNCHANGED << env, dirExists, args, values, dsOpened, scratchIn, tmp, iters,
                  i, row, new_file, console >>

Next ==
  \E p \in Procs :
    \/ Parse(p)
    \/ Load(p)
    \/ Warmup(p)
    \/ Measure(p)
    \/ AppendCheck(p)
    \/ AppendOpen(p)
    \/ AppendWrite(p)

Spec == Init /\ [][Next]_vars
SpecFaulty == InitFaulty /\ [][Next]_vars
SpecConc == InitConc /\ [][Next]_vars

(* ------------------------------ properties ----------------------------- *)
IsPrefix(s, t) == Len(s) <= Len(t) /\ SubSeq(t, 1, Len(s)) = s
Done(p) == pc[p] = "done"
InAppend(p) == pc[p] \in { "append_check", "append_open", "append_write" }
\* the run of p got past parse_args and the loader
Started(p) == pc[p] \in { "warmup", "measure" } \/ InAppend(p)
                \/ (Done(p) /\ err[p] \in { "none", "create_directories", "Failed to open output CSV" })
\* non-decreasing over every adjacent pair
NonDecreasing(a) == \A k \in 1..(Len(a) - 1) : a[k] <= a[k + 1]
\* the number of lines of the log that are the header
HeaderCount == Cardinality({ k \in 1..Len(log.lines) : log.lines[k] = HeaderLine })
\* a complete data row: the twelve fields of a measurement
IsDataRow(l) == Len(l) = Len(HeaderLine) /\ l # HeaderLine /\ l[2] = TextSort
\* the element count the header of the dataset file declares
DeclaredCount == DecodeCount(SubSeq(dsFile.bytes, 1, WordBytes))
AppendErrors == { "create_directories", "Failed to open output CSV" }

\* C1: under a single writer the log, once a call of append_row has returned,
\* is one header line followed by the rows of the returned calls in call
\* order, and a step never changes or removes a line that is in the log.
C1_Shape ==
  /\ calls = << >> => log.lines = << >>
  /\ calls # << >> => log.lines = << HeaderLine >> \o calls
C1_IdempotentHeader ==
  /\ [] C1_Shape
  /\ [][ IsPrefix(log.lines, log'.lines) /\ (log.exists => log'.exists) ]_vars
\* a second invocation has appended to the log the first one created
C1_Witness ==
  \E p, q \in Procs : p # q /\ Len(appended[p]) >= 2 /\ Len(appended[q]) >= 1
                       /\ Len(log.lines) = Len(calls) + 1

\* C2: with overlapping invocations and atomic appends the log, once it has a
\* line, has the header exactly once, as its first line, and every other
\* line is one complete data row.
C2_HeaderExactlyOnce ==
  log.lines # << >> =>
    /\ log.lines[1] = HeaderLine
    /\ HeaderCount = 1
    /\ \A k \in 2..Len(log.lines) : IsDataRow(log.lines[k])

\* C3: a run whose appends all succeed emits exactly reps rows, with rep_idx
\* 0, 1, ..., reps-1 in this order; the warmup iterations emit no row, so the
\* rows emitted are those of the measured repetitions only.
C3_RowsPerRun ==
  \A p \in Procs :
    /\ pc[p] \in { "load", "warmup" } => console[p] = << >> /\ appended[p] = << >>
    /\ pc[p] = "measure" => i[p] = args[p].warmup /\ Len(console[p]) = rep[p]
    /\ \A k \in 1..Len(console[p]) : console[p][k][RepIdxField] = to_string(k - 1)
    /\ exitCode[p] = 0 =>
         /\ Len(console[p]) = args[p].reps
         /\ appended[p] = console[p]
         /\ i[p] = args[p].warmup
\* a run over the empty dataset with a warmup iteration and two repetitions
C3_Witness ==
  \E p \in Procs : exitCode[p] = 0 /\ args[p].warmup >= 1 /\ args[p].reps >= 2
                   /\ values[p] = << >> /\ Len(log.lines) >= 3

\* C4: the ok field of a row is true when validation is disabled, whatever
\* the sort left in the scratch copy; with validation enabled it is true
\* exactly when the scratch copy is non-decreasing, hence always with a
\* correct sort.
C4_OkField ==
  \A p \in Procs :
    /\ InAppend(p) =>
         row[p][OkField] =
           (IF ~args[p].validate \/ NonDecreasing(tmp[p]) THEN TextTrue ELSE TextFalse)
    /\ ~args[p].validate \/ ~sortFault =>
         \A k \in 1..Len(console[p]) : console[p][k][OkField] = TextTrue
    /\ \A k \in 1..Len(console[p]) : console[p][k][OkField] \in { TextTrue, TextFalse }
\* validation is enabled, the sort left the copy unsorted, the row says false
C4_Witness ==
  \E p \in Procs : pc[p] = "append_check" /\ args[p].validate /\ ~NonDecreasing(tmp[p])
                   /\ row[p][OkField] = TextFalse

\* C5: every configuration error, an invalid or out-of-range number for
\* --warmup or --reps included, exits with code 2 before any I/O.
C5_ConfigErrorExit2 ==
  \A p \in Procs :
    err[p] \in { "usage", "stoi" } =>
      /\ exitCode[p] = 2
      /\ ~dsOpened[p]
      /\ console[p] = << >> /\ appended[p] = << >>

\* C6: a well-formed dataset file loads as its n values in file order; an
\* unopenable file, a short header or a short payload fails with an IOError,
\* trailing bytes fail with a FormatError; every failure ends the run with
\* exit code 1, before any iteration, with no row printed or logged and no
\* log file created.
C6_Loader ==
  \A p \in Procs :
    dsOpened[p] =>
      IF dsFile.openable /\ dsFile.bytes \in WellFormedBytes
        THEN /\ Started(p)
             /\ \E n \in 0..MaxN : dsFile.bytes = FileOf(Pattern(n)) /\ values[p] = Pattern(n)
        ELSE /\ Done(p) /\ exitCode[p] = 1
             /\ iters[p] = 0 /\ console[p] = << >> /\ appended[p] = << >>
             /\ ~log.exists /\ ~dirExists
             /\ IF /\ dsFile.openable
                   /\ Len(dsFile.bytes) >= WordBytes
                   /\ Len(dsFile.bytes) - WordBytes >= DeclaredCount * WordBytes
                  THEN err[p] \in FormatErrors
                  ELSE err[p] \in IOErrors
\* a file with a byte after its declared payload was rejected
C6_Witness ==
  \E p \in Procs : err[p] \in FormatErrors /\ Len(dsFile.bytes) = WordBytes * (MaxN + 1) + 1

\* C7: a failed validation is recorded as ok=false and is no fault: the
\* later repetitions are still executed and recorded, each with its own ok,
\* and the process exits with code 0.
C7_ValidationNoFault ==
  \A p \in Procs :
    /\ InAppend(p) /\ args[p].validate /\ ~NonDecreasing(tmp[p]) =>
         /\ row[p][OkField] = TextFalse
         /\ console[p][Len(console[p])] = row[p]
    /\ Done(p) /\ Started(p) /\ err[p] \notin AppendErrors =>
         /\ exitCode[p] = 0
         /\ Len(appended[p]) = args[p].reps
         /\ iters[p] = args[p].warmup + args[p].reps
    /\ exitCode[p] = 1 => err[p] # "none"
\* a run that exited 0 after a failed validation followed by a passed one
C7_Witness ==
  \E p \in Procs : exitCode[p] = 0 /\ Len(appended[p]) >= 2
                   /\ appended[p][1][OkField] = TextFalse
                   /\ appended[p][2][OkField] = TextTrue

\* C8: the row printed for a repetition is the row passed to append_row, and
\* it is printed whether or not the append succeeds: the rows a run has
\* appended are a prefix of its console lines, and equal them after exit 0.
C8_ConsoleMirrorsLog ==
  \A p \in Procs :
    /\ IsPrefix(appended[p], console[p])
    /\ Len(console[p]) <= Len(appended[p]) + 1
    /\ InAppend(p) => /\ Len(console[p]) = Len(appended[p]) + 1
                      /\ console[p][Len(console[p])] = row[p]
    /\ err[p] \in AppendErrors => Len(console[p]) = Len(appended[p]) + 1
    /\ exitCode[p] = 0 => console[p] = appended[p]
\* the row is on the console although its append failed
C8_Witness ==
  \E p \in Procs : err[p] = "create_directories" /\ Len(console[p]) = 1
                   /\ appended[p] = << >> /\ ~log.exists

\* C9: a started run stops early only when an append fails: then it exits
\* with code 1, the failed repetition is the last one executed, the rows of
\* the earlier repetitions are in the log and no row is added; otherwise both
\* loops run to completion and the process exits with code 0.
C9_RowsInLog(p) ==
  \E o \in 0..Len(log.lines) :
    SubSeq(log.lines, o + 1, o + Len(appended[p])) = appended[p]
C9_StopsOnlyOnAppendFailure ==
  \A p \in Procs :
    /\ Done(p) /\ err[p] \in AppendErrors =>
         /\ exitCode[p] = 1
         /\ rep[p] < args[p].reps
         /\ Len(appended[p]) = rep[p]
         /\ iters[p] = args[p].warmup + rep[p] + 1
         /\ C9_RowsInLog(p)
    /\ Done(p) /\ Started(p) /\ err[p] \notin AppendErrors =>
         /\ exitCode[p] = 0
         /\ i[p] = args[p].warmup /\ rep[p] = args[p].reps
         /\ iters[p] = args[p].warmup + args[p].reps
    /\ Started(p) /\ ~Done(p) => exitCode[p] = -1
\* the open failed in the second repetition; the first row is in the log
C9_Witness ==
  \E p \in Procs : exitCode[p] = 1 /\ err[p] = "Failed to open output CSV"
                   /\ rep[p] = 1 /\ Len(appended[p]) = 1 /\ log.lines # << >>

\* C10: the loaded dataset never changes, and every warmup and measured
\* iteration sorts a copy that equals it in content, order and length.
C10_DatasetImmutable ==
  \A p \in Procs :
    Started(p) =>
      \E n \in 0..MaxN :
        /\ dsFile.bytes = FileOf(Pattern(n))
        /\ values[p] = Pattern(n)
        /\ iters[p] > 0 => scratchIn[p] = Pattern(n) /\ Len(scratchIn[p]) = n
\* after a warmup and a measured iteration the sorted copy differs from the
\* dataset
C10_Witness ==
  \E p \in Procs : i[p] >= 1 /\ rep[p] >= 1 /\ iters[p] >= 2 /\ tmp[p] # values[p]

TypeOK ==
  /\ \A p \in Procs : exitCode[p] \in {-1, 0, 1, 2}
  /\ log.lines # << >> => log.exists
====
